---------------------------- MODULE Spec2Model ----------------------------
(***************************************************************************)
(* Surrogate-model layer of baybe (src/baybe/surrogate.py).                *)
(*                                                                         *)
(* Numbers.  Floating-point values are modelled as integers in units of    *)
(* 1e-6 (so 1.0 is 1000000 and the stability floor 1e-6 is 1); the value   *)
(* NaN is a sentinel that is absorbing under arithmetic and makes every    *)
(* ordering comparison false.                                              *)
(*                                                                         *)
(* Tensors.  A tensor is a record [shape, data]: shape is the sequence of  *)
(* dimension sizes, data the row-major (contiguous) sequence of elements.  *)
(* The trailing feature dimension D of a candidate tensor is kept implicit:*)
(* a candidate tensor of torch shape [T.., Q, D] has shape T \o <<Q>> here *)
(* and each element is one point (a D-vector), named by a point id.        *)
(***************************************************************************)
EXTENDS Integers, Sequences, FiniteSets, TLC

VARIABLES
    kind,          \* the surrogate class that was constructed
    n_estimators,  \* model_params["n_estimators"] of a random forest
    active,        \* SplitModel.model: "wrapped" or "mean" ("self": no guard)
    regressor,     \* the fitted library regressor (self.model of the family)
    target_value,  \* MeanPredictionModel.target_value
    scaler,        \* ScaledModel.scaler
    last,          \* the last public call and its arguments
    calls,         \* raw primitives (_fit, _posterior, f) run by the last call
    raw,           \* what self._posterior returned to the facade (last call)
    result,        \* outcome of the last public call
    trained,       \* the training set of the most recent fit, None if it raised
    model_params,  \* the keys of self.model_params (defaults left out)
    f_joint,       \* batchify: joint_posterior flag of the model owning f
    f_fail,        \* batchify: point id on which f raises (0: never)
    instances,     \* two surrogates side by side: each one's class and state
    dicts,         \* the dict objects the model_params of these refer to
    benchmark      \* a SingleExecutionBenchmark and what its function did

vars == <<kind, n_estimators, active, regressor, target_value, scaler,
          last, calls, raw, result, trained, model_params, f_joint, f_fail,
          instances, dicts, benchmark>>

\* the specifications of one surrogate leave these alone
others == <<instances, dicts, benchmark>>

-----------------------------------------------------------------------------
(* Bounds of the model *)

MaxRows == 2
MaxQ == 2
MaxT == 2
MaxTDims == 2

-----------------------------------------------------------------------------
(* Program constants, in units of 1e-6 *)

MIN_TARGET_STD == 1
MIN_VARIANCE == 1
ONE == 1000000

-----------------------------------------------------------------------------
(* Floating-point helpers *)

NaN == 0 - 1000000000

FAdd(a, b) == IF a = NaN \/ b = NaN THEN NaN ELSE a + b

FMul(a, b) == IF a = NaN \/ b = NaN THEN NaN ELSE a * b

FGe(a, b) == a # NaN /\ b # NaN /\ a >= b

FGt(a, b) == a # NaN /\ b # NaN /\ a > b

-----------------------------------------------------------------------------
(* Tensors *)

RECURSIVE Prod(_)
Prod(s) == IF s = <<>> THEN 1 ELSE Head(s) * Prod(Tail(s))

RECURSIVE Sum(_)
Sum(s) == IF s = <<>> THEN 0 ELSE Head(s) + Sum(Tail(s))

RECURSIVE Concat(_)
Concat(ss) == IF ss = <<>> THEN <<>> ELSE Head(ss) \o Concat(Tail(ss))

Tensor(shape, data) == [shape |-> shape, data |-> data]

NoTensor == Tensor(<<>>, <<>>)

\* an attribute that holds no object yet
None == [state |-> "None"]

Numel(x) == Prod(x.shape)

\* len(x): the size of the first dimension
TLen(x) == Head(x.shape)

\* x.ndim of the torch tensor (the implicit feature dimension included)
ndim(x) == Len(x.shape) + 1

t_shape(x) == SubSeq(x.shape, 1, Len(x.shape) - 1)

q_shape(x) == x.shape[Len(x.shape)]

\* torch.reshape: same elements in the same row-major order, a new shape
reshape(x, shape) == Tensor(shape, x.data)

\* x.flatten(end_dim=-3): all t-batch dimensions become one
flatten_t(x) == Tensor(<<Prod(t_shape(x)), q_shape(x)>>, x.data)

\* x.flatten(end_dim=-2): all t- and q-batch dimensions become one
flatten_all(x) == Tensor(<<Numel(x)>>, x.data)

\* iteration over the first dimension: the k-th sub-tensor
Slice(x, k) ==
    LET inner == Tail(x.shape)
        n == Prod(inner)
    IN Tensor(inner, SubSeq(x.data, (k - 1) * n + 1, k * n))

\* torch.stack of equally shaped tensors along a new first dimension
stack(ts) ==
    Tensor(<<Len(ts)>> \o ts[1].shape, Concat([k \in 1..Len(ts) |-> ts[k].data]))

\* a lifting that copies the variance of point i over the whole row i
_var_to_covar_dense(var) ==
    LET q == var.shape[Len(var.shape)]
        n == Numel(var) * q
    IN Tensor(var.shape \o <<q>>,
              [p \in 1..n |-> var.data[((p - 1) \div q) + 1]])

\* torch.diag_embed: variances [.., Q] to diagonal matrices [.., Q, Q]
_var_to_covar(var) ==
    LET q == var.shape[Len(var.shape)]
        n == Numel(var) * q
    IN Tensor(var.shape \o <<q>>,
              [p \in 1..n |->
                  LET b == (p - 1) \div (q * q)
                      i == ((p - 1) % (q * q)) \div q
                      j == (p - 1) % q
                  IN IF i = j THEN var.data[b * q + i + 1] ELSE 0])

\* covar.add_(torch.eye(covar.shape[-1]) * c), broadcast over the batches
add_eye(covar, c) ==
    LET q == covar.shape[Len(covar.shape)]
    IN Tensor(covar.shape,
              [p \in 1..Len(covar.data) |->
                  IF ((p - 1) % (q * q)) \div q = (p - 1) % q
                  THEN FAdd(covar.data[p], c)
                  ELSE covar.data[p]])

\* row-major offset (from 1) of a multi-index (from 1) in a shape
RECURSIVE Offset(_, _)
Offset(shape, idx) ==
    IF shape = <<>> THEN 1
    ELSE (Head(idx) - 1) * Prod(Tail(shape)) + Offset(Tail(shape), Tail(idx))

At(x, idx) == x.data[Offset(x.shape, idx)]

RECURSIVE Indices(_)
Indices(shape) ==
    IF shape = <<>> THEN {<<>>}
    ELSE {<<i>> \o r : i \in 1..Head(shape), r \in Indices(Tail(shape))}

\* candidate tensors: shape T \o <<Q>>, the points are numbered row-major
RECURSIVE Shapes(_, _)
Shapes(n, max) ==
    IF n = 0 THEN {<<>>}
    ELSE {<<>>} \cup {<<d>> \o s : d \in 0..max, s \in Shapes(n - 1, max)}

TShapes == {s \in Shapes(MaxTDims, MaxT) : Len(s) <= MaxTDims}

CandShapes == {t \o <<q>> : t \in TShapes, q \in 0..MaxQ}

\* the candidate tensors the surrogates are evaluated on: of several
\* t-batch dimensions, all but the last have size MaxT
SurrogateShapes ==
    {s \in CandShapes : \A i \in 1..(Len(s) - 2) : s[i] = MaxT}

Candidates(shape) == Tensor(shape, [p \in 1..Prod(shape) |-> p])

-----------------------------------------------------------------------------
(* Outcomes of a call: a returned (mean, covar) pair or a raised error,    *)
(* with the raw primitives that ran, in order.                             *)

Return(mean, covar, log) ==
    [status |-> "ok", mean |-> mean, covar |-> covar, calls |-> log]

Raise(error, log) ==
    [status |-> error, mean |-> NoTensor, covar |-> NoTensor, calls |-> log]

Call(fn, arg) == [fn |-> fn, arg |-> arg]

SetMin(S) == CHOOSE x \in S : \A y \in S : x <= y

-----------------------------------------------------------------------------
(* The surrogate classes                                                   *)

GP == "GaussianProcessModel"
MEAN == "MeanPredictionModel"
RF == "RandomForestModel"
NGB == "NGBoostModel"
BL == "BayesianLinearModel"

\* the five families the module defines
Families == {GP, MEAN, RF, NGB, BL}

\* catch_constant_targets applied to the Gaussian process: the composition
\* in which the guard wraps a joint model
GUARDED_GP == "catch_constant_targets(GaussianProcessModel)"

Kinds == Families \cup {GUARDED_GP}

\* the classes built by @catch_constant_targets
Guarded(k) == k \in {RF, NGB, BL, GUARDED_GP}

\* the classes built by @scale_model
Scaled(k) == k \in {RF, NGB, BL}

Family(k) == IF k = GUARDED_GP THEN GP ELSE k

\* the class-level joint_posterior constant of each family
FamilyJoint(fam) == fam = GP

\* a guard that reports the flag of the model it currently delegates to
SplitModel_joint_posterior_inner(k, act) ==
    FamilyJoint(IF act = "mean" THEN "MeanPredictionModel" ELSE Family(k))

\* SplitModel.joint_posterior, read on a guard whose inner model is `act`
SplitModel_joint_posterior(k, act) == FamilyJoint(Family(k))

\* the flag a surrogate reports
joint_posterior(k, act) ==
    IF Guarded(k) THEN SplitModel_joint_posterior(k, act)
    ELSE FamilyJoint(Family(k))

\* the class of the model a guard currently delegates to
ActiveFamily(k, act) == IF act = "mean" THEN MEAN ELSE Family(k)

\* a class name that follows the model the guard delegates to
ClassName_active(k, act) == ActiveFamily(k, act)

\* surrogate.__class__.__name__: the wrappers take the name of the family
\* when they are constructed
ClassName(k, act) == Family(k)

\* self.type: the family tag, read through the wrappers from the model that
\* is active
type(k, act) == IF ActiveFamily(k, act) = GP THEN "GP" ELSE "other"

-----------------------------------------------------------------------------
(* Training data and library results                                       *)

\* target values, in units of 1e-6
TargetValues == {0, 1, 2}

\* posterior means are kept in units of 1e-6 / MeanScale, so that the
\* average of up to MaxRows targets is an integer
MeanScale == Prod([i \in 1..MaxRows |-> i])

\* the column counts of the target matrices that are not one column wide
OtherCols == {0, 2}

\* the target matrices of n rows: the first column and the number of
\* columns.  Neither the guard nor the scaler depends on the order of the
\* rows, so the one-column matrices are enumerated in ascending order; one
\* matrix without columns and one of two columns stand for the others.
Targets(n) ==
    {[cols |-> 1, data |-> d] :
        d \in {e \in [1..n -> TargetValues] :
                  \A i \in 1..(n - 1) : e[i] <= e[i + 1]}}
    \cup {[cols |-> c, data |-> [i \in 1..n |-> 0]] : c \in OtherCols}

\* the row counts of the target matrices offered with n feature rows: as
\* many rows, one row fewer, or none
TargetRows(n) == {m \in {0, n - 1, n} : m >= 0}

SumSq(y) == Sum([i \in 1..Len(y) |-> y[i] * y[i]])

\* torch.std(train_y.ravel(), unbiased=False) < _MIN_TARGET_STD; both sides
\* are squared and multiplied by len(y)^2
StdBelowMin(y) ==
    Len(y) * SumSq(y) - Sum(y) * Sum(y)
        < Len(y) * Len(y) * MIN_TARGET_STD * MIN_TARGET_STD

\* the sum of the targets in place of their average
TargetMean_sum(y) == IF Len(y) = 0 THEN NaN ELSE Sum(y) * MeanScale

\* train_y.mean().item(): NaN for a tensor without elements
TargetMean(y) == IF Len(y) = 0 THEN NaN ELSE (Sum(y) * MeanScale) \div Len(y)

\* what the fitted library regressor answers at evaluation time: the value
\* lib at the odd points and 1 - lib at the even points
LibAnswers == {0, 1}

Pat(lib, p) == IF p % 2 = 1 THEN lib ELSE 1 - lib

-----------------------------------------------------------------------------
(* DefaultScaler                                                           *)

SeqMin(y) == SetMin({y[i] : i \in 1..Len(y)})

SeqMax(y) == 0 - SetMin({0 - y[i] : i \in 1..Len(y)})

\* the computational representations of the search spaces a surrogate is
\* fitted on
CompReps == {1, 2}

\* DefaultScaler(comp_rep).fit_transform(x, y): the rescaling of the features
\* is taken from the search space, the linear rescaling of the targets from
\* the targets (statistics of no target are NaN)
DefaultScaler(comp_rep, y) ==
    [state |-> "fitted", comp_rep |-> comp_rep,
     shift |-> IF Len(y) = 0 THEN NaN ELSE SeqMin(y),
     scale |-> IF Len(y) = 0 THEN NaN ELSE SeqMax(y) - SeqMin(y)]

\* the scaled representation of a point: kept apart from the unscaled one,
\* and from its representation in another search space
ScaleTag == 100

scaler_transform(sc, x) ==
    Tensor(x.shape,
           [p \in 1..Len(x.data) |-> x.data[p] + ScaleTag * sc.comp_rep])

\* untransform: the mean is rescaled linearly, the variance quadratically
scaler_untransform(sc, mean, covar) ==
    [mean |-> Tensor(mean.shape,
                     [p \in 1..Len(mean.data) |->
                         FAdd(FMul(mean.data[p], sc.scale),
                              FMul(sc.shift, MeanScale))]),
     covar |-> Tensor(covar.shape,
                      [p \in 1..Len(covar.data) |->
                          FMul(FMul(covar.data[p], sc.scale), sc.scale)])]

-----------------------------------------------------------------------------
(* Raw posteriors of the families.  `st` is the state of the surrogate:    *)
(* [active, regressor, target_value, scaler]; `lib` is what the fitted     *)
(* library regressor answers.                                              *)

\* The library regressors validate what they are asked to predict: a
\* tensor without any point is rejected (scikit-learn's check_array asks
\* for at least one sample; the Gaussian process is taken to do the same).
LibraryRejects(c) == Numel(c) = 0

\* GaussianProcessModel._posterior: the library evaluates batched candidates
\* itself; the covariance couples the points of one t-batch only
GP_posterior(st, c, lib) ==
    LET q == q_shape(c)
        log == <<Call("GaussianProcessModel._posterior", c)>>
        v(p) == Pat(lib, c.data[p])
    IN IF st.regressor = None THEN Raise("AttributeError", log)
       ELSE IF LibraryRejects(c) THEN Raise("ValueError", log)
       ELSE Return(
            Tensor(c.shape, [p \in 1..Len(c.data) |-> Pat(lib, c.data[p])]),
            Tensor(c.shape \o <<q>>,
                   [p \in 1..(Len(c.data) * q) |->
                       LET b == (p - 1) \div (q * q)
                           i == b * q + (((p - 1) % (q * q)) \div q) + 1
                           j == b * q + ((p - 1) % q) + 1
                       IN IF i = j THEN v(i)
                          ELSE IF v(i) > 0 /\ v(j) > 0 THEN 1 ELSE 0]),
            log)

\* MeanPredictionModel._posterior (before batchify)
Mean_posterior(st, c) ==
    LET n == TLen(c)
        log == <<Call("MeanPredictionModel._posterior", c)>>
    IN IF st.target_value = None THEN Raise("TypeError", log)
       ELSE Return(Tensor(<<n>>, [p \in 1..n |-> st.target_value.value]),
                   Tensor(<<n>>, [p \in 1..n |-> ONE]),
                   log)

\* predictions.var(dim=0): the unbiased variance, NaN for a single value
UnbiasedVar(xs) ==
    LET n == Len(xs)
        m == Sum(xs) \div n
    IN IF n = 1 THEN NaN
       ELSE Sum([k \in 1..n |-> (xs[k] - m) * (xs[k] - m)]) \div (n - 1)

\* RandomForestModel._posterior (before batchify): mean and variance over
\* the predictions of the trees
RF_posterior(st, c, lib) ==
    LET n == TLen(c)
        log == <<Call("RandomForestModel._posterior", c)>>
        trees == st.regressor.n_estimators
        \* the trees agree when lib = 0 and alternate when lib = 1
        predictions(p) ==
            [tree \in 1..trees |-> 2 * Pat(lib, c.data[p] + lib * (tree - 1))]
    IN IF st.regressor.state # "fitted" THEN Raise("AttributeError", log)
       ELSE IF LibraryRejects(c) THEN Raise("ValueError", log)
       ELSE Return(Tensor(<<n>>, [p \in 1..n |-> Sum(predictions(p)) \div trees]),
                   Tensor(<<n>>, [p \in 1..n |-> UnbiasedVar(predictions(p))]),
                   log)

\* NGBoostModel._posterior (before batchify): mean and variance of the
\* predicted distributions
NGB_posterior(st, c, lib) ==
    LET n == TLen(c)
        log == <<Call("NGBoostModel._posterior", c)>>
    IN IF st.regressor.state # "fitted" THEN Raise("AttributeError", log)
       ELSE IF LibraryRejects(c) THEN Raise("ValueError", log)
       ELSE Return(Tensor(<<n>>, [p \in 1..n |-> Pat(lib, c.data[p])]),
                   Tensor(<<n>>, [p \in 1..n |-> Pat(lib, c.data[p]) + 1]),
                   log)

\* BayesianLinearModel._posterior (before batchify): predictive mean and
\* the square of the predictive standard deviation
BL_posterior(st, c, lib) ==
    LET n == TLen(c)
        log == <<Call("BayesianLinearModel._posterior", c)>>
        std(p) == Pat(lib, c.data[p])
    IN IF st.regressor = None THEN Raise("AttributeError", log)
       ELSE IF st.regressor.state # "fitted" THEN Raise("NotFittedError", log)
       ELSE IF LibraryRejects(c) THEN Raise("ValueError", log)
       ELSE Return(Tensor(<<n>>, [p \in 1..n |-> Pat(lib, c.data[p])]),
                   Tensor(<<n>>, [p \in 1..n |-> std(p) * std(p)]),
                   log)

-----------------------------------------------------------------------------
(* batchify: the batch sequentializer wrapped around a raw posterior       *)

\* A model as batchify sees it: the class of the instance, its
\* joint_posterior flag, its state and what its library regressor answers.
Model(cls, joint, st, lib) ==
    [cls |-> cls, joint_posterior |-> joint, st |-> st, lib |-> lib]

\* The raw posterior handed to batchify: any function of one 2-D batch.
\* This one makes the data flow visible: the mean of point x is 10x, its
\* variance x, the covariance of points x and y is 100x + y; it raises when
\* the batch holds the point f_fail.
f(batch) ==
    LET q == TLen(batch)
        x == batch.data
    IN IF \E i \in 1..q : x[i] = f_fail
       THEN Raise("RuntimeError", <<Call("f", batch)>>)
       ELSE Return(Tensor(<<q>>, [i \in 1..q |-> 10 * x[i]]),
                   IF f_joint
                   THEN Tensor(<<q, q>>,
                               [p \in 1..(q * q) |->
                                   100 * x[((p - 1) \div q) + 1] + x[((p - 1) % q) + 1]])
                   ELSE Tensor(<<q>>, [i \in 1..q |-> x[i]]),
                   <<Call("f", batch)>>)

\* posterior(model, batch): the raw posterior that batchify has wrapped
wrapped_posterior(model, batch) ==
    CASE model.cls = "f" -> f(batch)
      [] model.cls = MEAN -> Mean_posterior(model.st, batch)
      [] model.cls = RF -> RF_posterior(model.st, batch, model.lib)
      [] model.cls = NGB -> NGB_posterior(model.st, batch, model.lib)
      [] model.cls = BL -> BL_posterior(model.st, batch, model.lib)

\* an evaluation that collects the t-batch elements last to first
SequentialJoint_reversed(model, candidates) ==
    LET flattened == flatten_t(candidates)
        n == TLen(flattened)
        out == [k \in 1..n |-> wrapped_posterior(model, Slice(flattened, n + 1 - k))]
        bad == {k \in 1..n : out[k].status # "ok"}
        stop == IF bad = {} THEN n ELSE SetMin(bad)
        log == Concat([k \in 1..stop |-> out[k].calls])
        t == t_shape(candidates)
        q == q_shape(candidates)
    IN IF bad # {} THEN Raise(out[stop].status, log)
       ELSE IF n = 0 THEN Raise("ValueError", log)
       ELSE Return(reshape(stack([k \in 1..n |-> out[k].mean]), t \o <<q>>),
                   reshape(stack([k \in 1..n |-> out[k].covar]), t \o <<q, q>>),
                   log)

\* an evaluation that runs f on every t-batch element before it reports
\* the error of one of them
SequentialJoint_eager(model, candidates) ==
    LET flattened == flatten_t(candidates)
        n == TLen(flattened)
        out == [k \in 1..n |-> wrapped_posterior(model, Slice(flattened, k))]
        bad == {k \in 1..n : out[k].status # "ok"}
        log == Concat([k \in 1..n |-> out[k].calls])
        t == t_shape(candidates)
        q == q_shape(candidates)
    IN IF bad # {} THEN Raise(out[SetMin(bad)].status, log)
       ELSE IF n = 0 THEN Raise("ValueError", log)
       ELSE Return(reshape(stack([k \in 1..n |-> out[k].mean]), t \o <<q>>),
                   reshape(stack([k \in 1..n |-> out[k].covar]), t \o <<q, q>>),
                   log)

\* the t-batch by t-batch evaluation of a joint model.  The generator `out`
\* is consumed by zip: a raise in one element ends the consumption,
\* and with no element at all the unpacking of zip() raises ValueError.
SequentialJoint(model, candidates) ==
    LET flattened == flatten_t(candidates)
        n == TLen(flattened)
        out == [k \in 1..n |-> wrapped_posterior(model, Slice(flattened, k))]
        bad == {k \in 1..n : out[k].status # "ok"}
        stop == IF bad = {} THEN n ELSE SetMin(bad)
        log == Concat([k \in 1..stop |-> out[k].calls])
        mean == stack([k \in 1..n |-> out[k].mean])
        covar == stack([k \in 1..n |-> out[k].covar])
        t == t_shape(candidates)
        q == q_shape(candidates)
    IN IF bad # {} THEN Raise(out[stop].status, log)
       ELSE IF n = 0 THEN Raise("ValueError", log)
       ELSE Return(reshape(mean, t \o <<q>>), reshape(covar, t \o <<q, q>>), log)

\* an evaluation of a marginal model t-batch by t-batch
SequentialMarginal_loop(model, candidates) ==
    LET flattened == flatten_t(candidates)
        n == TLen(flattened)
        out == [k \in 1..n |-> wrapped_posterior(model, Slice(flattened, k))]
        bad == {k \in 1..n : out[k].status # "ok"}
        stop == IF bad = {} THEN n ELSE SetMin(bad)
        log == Concat([k \in 1..stop |-> out[k].calls])
        t == t_shape(candidates)
        q == q_shape(candidates)
    IN IF bad # {} THEN Raise(out[stop].status, log)
       ELSE IF n = 0 THEN Raise("ValueError", log)
       ELSE Return(reshape(stack([k \in 1..n |-> out[k].mean]), t \o <<q>>),
                   reshape(stack([k \in 1..n |-> out[k].covar]), t \o <<q>>),
                   log)

\* one evaluation of a marginal model on all points at once
SequentialMarginal(model, candidates) ==
    LET flattened == flatten_all(candidates)
        out == wrapped_posterior(model, flattened)
        t == t_shape(candidates)
        q == q_shape(candidates)
    IN IF out.status # "ok" THEN out
       ELSE Return(reshape(out.mean, t \o <<q>>),
                   reshape(out.covar, t \o <<q>>), out.calls)

\* the function batchify puts in the place of a raw posterior
sequential_posterior(model, candidates) ==
    IF ndim(candidates) = 2 THEN wrapped_posterior(model, candidates)
    ELSE IF model.joint_posterior THEN SequentialJoint(model, candidates)
    ELSE SequentialMarginal(model, candidates)

NoCall == [op |-> "none", candidates |-> NoTensor]

NoResult == Raise("none", <<>>)

\* the largest number of points of a candidate tensor
MaxPoints == Prod([i \in 1..MaxTDims |-> MaxT]) * MaxQ

InitBatch ==
    /\ instances = <<>> /\ dicts = <<>> /\ benchmark = <<>>
    /\ kind = "batchify"
    /\ n_estimators = 0
    /\ active = "self"
    /\ regressor = None
    /\ target_value = None
    /\ scaler = None
    /\ trained = None
    /\ model_params = {}
    /\ last = NoCall
    /\ calls = <<>>
    /\ raw = NoResult
    /\ result = NoResult
    /\ f_joint \in BOOLEAN
    /\ f_fail \in 0..MaxPoints

\* The caller goes on after a call: what the call returned or raised, and
\* the record of what it ran, are dropped; the instance keeps its state.
Continue ==
    /\ last # NoCall
    /\ last' = NoCall
    /\ calls' = <<>>
    /\ raw' = NoResult
    /\ result' = NoResult
    /\ UNCHANGED <<others, kind, n_estimators, active, regressor, target_value,
                   scaler, trained, model_params, f_joint, f_fail>>

\* one call of the wrapped posterior function on a candidate tensor
Evaluate ==
    /\ last = NoCall
    /\ \E shape \in CandShapes :
        \E out \in {sequential_posterior(Model("f", f_joint, None, 0),
                                         Candidates(shape))} :
           /\ last' = [op |-> "sequential_posterior",
                       candidates |-> Candidates(shape)]
           /\ calls' = out.calls
           /\ result' = [out EXCEPT !.calls = <<>>]
           /\ UNCHANGED <<others, kind, n_estimators, active, regressor, target_value,
                          scaler, raw, trained, model_params,
                          f_joint, f_fail>>

NextBatch == Evaluate \/ Continue

SpecBatch == InitBatch /\ [][NextBatch]_vars

-----------------------------------------------------------------------------
(* The posterior of the wrappers and of the facade                         *)

\* the _posterior attribute of an instance of a family: the @batchify
\* wrapper for every family but the Gaussian process
Family_posterior(fam, st, c, lib) ==
    IF fam = GP THEN GP_posterior(st, c, lib)
    ELSE sequential_posterior(Model(fam, FamilyJoint(fam), st, lib), c)

\* ScaledModel._posterior, after the wrapped model has answered `out` on the
\* transformed candidates: the scaler's untransform of mean and covariance
ScaledModel_untransform(st, out) ==
    IF out.status # "ok" THEN out
    ELSE Return(scaler_untransform(st.scaler, out.mean, out.covar).mean,
                scaler_untransform(st.scaler, out.mean, out.covar).covar,
                out.calls \o <<Call("DefaultScaler.untransform",
                                    [mean |-> out.mean, covar |-> out.covar])>>)

\* an adapter that hands the candidates to the wrapped model as they are
ScaledModel_posterior_unscaled(k, st, c, lib) ==
    IF st.scaler = None THEN Raise("AttributeError", <<>>)
    ELSE [ScaledModel_untransform(st, Family_posterior(Family(k), st, c, lib))
          EXCEPT !.calls = <<Call("DefaultScaler.transform", c)>> \o @]

\* ScaledModel._posterior
ScaledModel_posterior(k, st, c, lib) ==
    IF st.scaler = None THEN Raise("AttributeError", <<>>)
    ELSE [ScaledModel_untransform(
              st, Family_posterior(Family(k), st,
                                   scaler_transform(st.scaler, c), lib))
          EXCEPT !.calls = <<Call("DefaultScaler.transform", c)>> \o @]

\* self.model._posterior(candidates) inside SplitModel: the constant
\* predictor once it was swapped in, else the wrapped model
SplitModel_model_posterior(k, st, c, lib) ==
    IF st.active = "mean" THEN Family_posterior(MEAN, st, c, lib)
    ELSE IF Scaled(k) THEN ScaledModel_posterior(k, st, c, lib)
    ELSE Family_posterior(Family(k), st, c, lib)

\* SplitModel._posterior, after self.model has answered `out`: variances
\* become a covariance when the guard is joint and the active model is not
SplitModel_convert(k, st, out) ==
    IF out.status # "ok" THEN out
    ELSE IF /\ SplitModel_joint_posterior(k, st.active)
            /\ ~FamilyJoint(ActiveFamily(k, st.active))
    THEN Return(out.mean, _var_to_covar(out.covar), out.calls)
    ELSE out

\* SplitModel._posterior
SplitModel_posterior(k, st, c, lib) ==
    SplitModel_convert(k, st, SplitModel_model_posterior(k, st, c, lib))

\* self._posterior of the surrogate
_posterior(k, st, c, lib) ==
    IF Guarded(k) THEN SplitModel_posterior(k, st, c, lib)
    ELSE Family_posterior(k, st, c, lib)

\* _prepare_inputs: the error it raises, if any
_prepare_inputs(x) == IF TLen(x) = 0 THEN "ValueError" ELSE "ok"

\* a facade whose floor is added a second time on the way out
FacadeCovar_twice(k, st, covar) ==
    add_eye(add_eye(IF ~joint_posterior(k, st.active) THEN _var_to_covar(covar)
                    ELSE covar,
                    MIN_VARIANCE),
            MIN_VARIANCE)

\* the covariance SurrogateModel.posterior makes of the raw one
FacadeCovar(k, st, covar) ==
    add_eye(IF ~joint_posterior(k, st.active) THEN _var_to_covar(covar)
            ELSE covar,
            MIN_VARIANCE)

\* SurrogateModel.posterior, given what self._posterior does on the
\* candidates
posterior(k, st, c, out) ==
    IF _prepare_inputs(c) # "ok" THEN Raise(_prepare_inputs(c), <<>>)
    ELSE IF out.status # "ok" THEN out
    ELSE Return(out.mean, FacadeCovar(k, st, out.covar), out.calls)

-----------------------------------------------------------------------------
(* Fitting.  A training set is the feature tensor x (one point per row)    *)
(* and the target matrix y; `ss` is the search space, `lib_ok` tells       *)
(* whether the library's fitting routine returns or raises.                *)

Fitted(status, st, log) == [status |-> status, st |-> st, calls |-> log]

\* a check that asks for at least one target column
_prepare_targets_some(y) == IF y.cols < 1 THEN "NotImplementedError" ELSE "ok"

\* _prepare_targets: the error it raises, if any
_prepare_targets(y) == IF y.cols # 1 THEN "NotImplementedError" ELSE "ok"

\* the checks of the training data alone
FitChecks_data(tag, ss, x, y) ==
    IF _prepare_inputs(x) # "ok" THEN _prepare_inputs(x)
    ELSE _prepare_targets(y)

\* checks that look at the targets before the inputs
FitChecks_targets_first(tag, ss, x, y) ==
    IF ss.continuous /\ tag # "GP" THEN "NotImplementedError"
    ELSE IF _prepare_targets(y) # "ok" THEN _prepare_targets(y)
    ELSE _prepare_inputs(x)

\* the checks of SurrogateModel.fit, in the order of the code, for a model
\* whose family tag is `tag`
FitChecks(tag, ss, x, y) ==
    IF ss.continuous /\ tag # "GP" THEN "NotImplementedError"
    ELSE IF _prepare_inputs(x) # "ok" THEN _prepare_inputs(x)
    ELSE _prepare_targets(y)

\* the library regressor a family's _fit leaves in self.model
Regressor(state, trees, x, y) ==
    [state |-> state, n_estimators |-> trees, x |-> x, y |-> y.data]

\* a key the constructor of no library regressor knows
UnknownKey == "not_a_real_param"

\* the library regressors validate their training set: features and targets
\* of different row counts are rejected
LibraryRejectsFit(x, y) == TLen(x) # Len(y.data)

\* what the library does with the training set once the regressor exists
LibraryFit(x, y, lib_ok) ==
    IF LibraryRejectsFit(x, y) THEN "ValueError"
    ELSE IF lib_ok THEN "ok" ELSE "RuntimeError"

\* families that assign their regressor only once its fit has returned
Family_fit_assign_last(fam, st, x, y, lib_ok) ==
    LET log == <<Call(fam \o "._fit", [x |-> x, y |-> y.data])>>
        lib == LibraryFit(x, y, lib_ok)
        trees == IF fam = RF THEN n_estimators ELSE 0
    IN IF fam = MEAN
       THEN Fitted("ok",
                   [st EXCEPT !.target_value =
                       [state |-> "fitted", value |-> TargetMean(y.data)]],
                   log)
       ELSE IF fam # GP /\ UnknownKey \in model_params
       THEN Fitted("TypeError", st, log)
       ELSE IF lib = "ok"
       THEN Fitted("ok", [st EXCEPT !.regressor =
                             Regressor("fitted", trees, x, y)], log)
       ELSE Fitted(lib, st, log)

\* the _fit of each family.  The regressor is built from model_params: a
\* key its constructor does not know makes the constructor raise TypeError.
Family_fit(fam, st, x, y, lib_ok) ==
    LET log == <<Call(fam \o "._fit", [x |-> x, y |-> y.data])>>
        lib == LibraryFit(x, y, lib_ok)
        trees == IF fam = RF THEN n_estimators ELSE 0
        \* the process holds its training set from its construction on, the
        \* other regressors once their fit has returned
        built == IF lib = "ok" THEN Regressor("fitted", trees, x, y)
                 ELSE IF fam = GP THEN Regressor("constructed", trees, x, y)
                 ELSE [state |-> "constructed", n_estimators |-> trees]
    IN CASE fam = MEAN ->
              Fitted("ok",
                     [st EXCEPT !.target_value =
                         [state |-> "fitted", value |-> TargetMean(y.data)]],
                     log)
         [] fam = GP ->
              \* model_params is not read; the process is constructed from
              \* the training set, assigned, then trained
              IF LibraryRejectsFit(x, y)
              THEN Fitted("BotorchTensorDimensionError", st, log)
              ELSE Fitted(lib, [st EXCEPT !.regressor = built], log)
         [] fam \in {RF, BL} ->
              \* the regressor is constructed and assigned, then fitted
              IF UnknownKey \in model_params THEN Fitted("TypeError", st, log)
              ELSE Fitted(lib, [st EXCEPT !.regressor = built], log)
         [] fam = NGB ->
              \* the regressor is assigned once its fit has returned
              IF UnknownKey \in model_params THEN Fitted("TypeError", st, log)
              ELSE IF lib = "ok"
              THEN Fitted("ok", [st EXCEPT !.regressor = built], log)
              ELSE Fitted(lib, st, log)

\* the public fit of an inner model of family fam
Inner_fit(fam, st, ss, x, y, lib_ok) ==
    LET tag == IF fam = GP THEN "GP" ELSE "other"
    IN IF FitChecks(tag, ss, x, y) # "ok"
       THEN Fitted(FitChecks(tag, ss, x, y), st, <<>>)
       ELSE Family_fit(fam, st, x, y, lib_ok)

\* the targets as the scaler hands them on: (y - shift) / scale
ScaledTargets(sc, y) ==
    [cols |-> y.cols,
     data |-> [i \in 1..Len(y.data) |-> <<y.data[i] - sc.shift, sc.scale>>]]

\* the wrapped model fitted on what the scaler `sc` makes of the training
\* set; the fitting of the scaler comes first in the record of the call
ScaledModel_fit_with(sc, k, st, ss, x, y, lib_ok) ==
    [Inner_fit(Family(k), [st EXCEPT !.scaler = sc], ss,
               scaler_transform(sc, x), ScaledTargets(sc, y), lib_ok)
     EXCEPT !.calls = <<Call("DefaultScaler.fit_transform",
                             [comp_rep |-> ss.comp_rep, x |-> x, y |-> y.data])>>
                      \o @]

\* an adapter that fits its scaler once and keeps it afterwards
ScaledModel_fit_once(k, st, ss, x, y, lib_ok) ==
    ScaledModel_fit_with(IF st.scaler = None
                         THEN DefaultScaler(ss.comp_rep, y.data) ELSE st.scaler,
                         k, st, ss, x, y, lib_ok)

\* ScaledModel._fit
ScaledModel_fit(k, st, ss, x, y, lib_ok) ==
    ScaledModel_fit_with(DefaultScaler(ss.comp_rep, y.data),
                         k, st, ss, x, y, lib_ok)

\* the public fit of the ScaledModel instance a guard holds
Scaled_fit(k, st, ss, x, y, lib_ok) ==
    IF FitChecks("other", ss, x, y) # "ok"
    THEN Fitted(FitChecks("other", ss, x, y), st, <<>>)
    ELSE ScaledModel_fit(k, st, ss, x, y, lib_ok)

\* the model SplitModel._fit selects: a new MeanPredictionModel when the
\* targets are constant (the wrapped instance is then dropped), otherwise
\* the model it holds
SelectModel(st, y) ==
    IF StdBelowMin(y.data)
    THEN [active |-> "mean", regressor |-> None, target_value |-> None,
          scaler |-> None]
    ELSE st

\* SplitModel._fit
SplitModel_fit(k, st, ss, x, y, lib_ok) ==
    LET sel == SelectModel(st, y)
    IN IF sel.active = "mean" THEN Inner_fit(MEAN, sel, ss, x, y, lib_ok)
       ELSE IF Scaled(k) THEN Scaled_fit(k, sel, ss, x, y, lib_ok)
       ELSE Inner_fit(Family(k), sel, ss, x, y, lib_ok)

\* a fit that selects the model for the targets before it validates
fit_select_first(k, st, ss, x, y, lib_ok) ==
    LET check == FitChecks(type(k, st.active), ss, x, y)
    IN IF check # "ok"
       THEN Fitted(check, IF Guarded(k) THEN SelectModel(st, y) ELSE st, <<>>)
       ELSE IF Guarded(k) THEN SplitModel_fit(k, st, ss, x, y, lib_ok)
       ELSE Family_fit(k, st, x, y, lib_ok)

\* SurrogateModel.fit
fit(k, st, ss, x, y, lib_ok) ==
    LET check == FitChecks(type(k, st.active), ss, x, y)
    IN IF check # "ok" THEN Fitted(check, st, <<>>)
       ELSE IF Guarded(k) THEN SplitModel_fit(k, st, ss, x, y, lib_ok)
       ELSE Family_fit(k, st, x, y, lib_ok)

-----------------------------------------------------------------------------
(* Construction: the validator of model_params                             *)

\* the largest number of keys of a model_params mapping
MaxKeys == 2

\* the keys a caller passes
Keys == {"n_estimators", "verbose", "covar_module", UnknownKey, "typo"}

\* the mappings a surrogate is constructed with: their keys, in order
RECURSIVE KeySeqs(_)
KeySeqs(n) ==
    IF n = 0 THEN {<<>>}
    ELSE KeySeqs(n - 1)
         \cup UNION {{Append(ks, k) : k \in Keys \ {ks[i] : i \in 1..Len(ks)}} :
                        ks \in {q \in KeySeqs(n - 1) : Len(q) = n - 1}}

\* model_init.__code__.co_varnames of the constructor of the library
\* regressor of each family: self and the constructor's parameters
co_varnames(fam) ==
    CASE fam = GP -> {"self", "train_X", "train_Y", "likelihood", "covar_module"}
      [] fam = RF -> {"self", "n_estimators", "criterion", "max_depth", "verbose"}
      [] fam = NGB -> {"self", "Dist", "Score", "n_estimators", "verbose"}
      [] fam = BL -> {"self", "n_iter", "tol", "verbose"}

\* the keys of model_params the constructor does not list, in order
invalid_params(fam, keys) ==
    SelectSeq(keys, LAMBDA k : k \notin co_varnames(fam))

Accepted == [status |-> "ok", message |-> None]

Invalid(error, model, keys) ==
    [status |-> error, message |-> [model |-> model, keys |-> keys]]

\* a validator that names the first key it does not know
validate_model_params_first(fam, keys) ==
    IF fam = GP /\ keys # <<>> THEN Invalid("ValueError", fam, <<>>)
    ELSE IF invalid_params(fam, keys) # <<>>
    THEN Invalid("ValueError", fam, <<invalid_params(fam, keys)[1]>>)
    ELSE Accepted

\* a validator that treats the Gaussian process like the other families
validate_model_params_any(fam, keys) ==
    IF invalid_params(fam, keys) # <<>>
    THEN Invalid("ValueError", fam, invalid_params(fam, keys))
    ELSE Accepted

\* validate_model_params(obj, _, model_params) for an object of class fam
validate_model_params(fam, keys) ==
    IF fam = GP /\ keys # <<>> THEN Invalid("ValueError", fam, <<>>)
    ELSE IF invalid_params(fam, keys) # <<>>
    THEN Invalid("ValueError", fam, invalid_params(fam, keys))
    ELSE Accepted

\* the construction of a surrogate: the attrs-generated initialiser of the
\* family runs the validator of its model_params field; the constant
\* predictor inherits the field of the base class, which has none
construct(fam, keys) ==
    IF fam = MEAN THEN Accepted ELSE validate_model_params(fam, keys)

InitParams ==
    /\ instances = <<>> /\ dicts = <<>> /\ benchmark = <<>>
    /\ kind \in Families
    /\ n_estimators = 0
    /\ active = "self"
    /\ regressor = None
    /\ target_value = None
    /\ scaler = None
    /\ trained = None
    /\ model_params = {}
    /\ last = NoCall
    /\ calls = <<>>
    /\ raw = NoResult
    /\ result = NoResult
    /\ f_joint = FALSE
    /\ f_fail = 0

\* cls(model_params=...): a new instance, or the validator's error
Construct ==
    /\ last = NoCall
    /\ \E keys \in KeySeqs(MaxKeys) :
        \E out \in {construct(kind, keys)} :
           /\ last' = [op |-> "construct", model_params |-> keys]
           /\ result' = out
           /\ model_params' = IF out.status = "ok"
                               THEN {keys[i] : i \in 1..Len(keys)}
                               ELSE model_params
           /\ UNCHANGED <<others, kind, n_estimators, active, regressor, target_value,
                          scaler, calls, raw, trained, f_joint, f_fail>>

NextParams == Construct \/ Continue

SpecParams == InitParams /\ [][NextParams]_vars

-----------------------------------------------------------------------------
(* Attribute access.  `st` is the state of the surrogate, `params` the     *)
(* model_params of the instance that is read, `attr` the attribute's name. *)

\* the attributes a caller reads
Attrs == {"model", "model_params", "joint_posterior", "scaler",
          "target_value", "undefined"}

\* the attribute was found
Got(v) == [status |-> "ok", value |-> v]

\* the model a wrapper holds in self.model, by its class
Instance(cls) == [instance |-> cls]

\* the class scale_model makes of a family
SCALED(fam) == "scale_model(" \o fam \o ")"

\* the default lookup on an instance of a family: the fields model and
\* model_params, the class constants joint_posterior and (constant
\* predictor) target_value
Family_getattribute(fam, st, params, attr) ==
    CASE attr = "joint_posterior" -> Got(FamilyJoint(fam))
      [] attr = "model_params" -> Got(params)
      [] attr = "model" /\ fam # MEAN -> Got(st.regressor)
      [] attr = "target_value" /\ fam = MEAN -> Got(st.target_value)
      [] OTHER -> Raise("AttributeError", <<>>)

\* super().__getattribute__(attr) on a ScaledModel: what __init__ has
\* assigned and what the class inherits from the family
ScaledModel_super_getattribute(k, st, attr) ==
    CASE attr = "model" -> Got(Instance(Family(k)))
      [] attr = "model_params" -> Got(model_params)
      [] attr = "scaler" -> Got(st.scaler)
      [] attr = "joint_posterior" -> Got(FamilyJoint(Family(k)))
      [] OTHER -> Raise("AttributeError", <<>>)

\* ScaledModel.__getattribute__
ScaledModel_getattribute(k, st, attr) ==
    IF ScaledModel_super_getattribute(k, st, attr).status = "ok"
    THEN ScaledModel_super_getattribute(k, st, attr)
    ELSE Family_getattribute(Family(k), st, model_params, attr)

\* super().__getattribute__(attr) on a SplitModel: what __init__ and _fit
\* have assigned and the class constant
SplitModel_super_getattribute(k, st, attr) ==
    CASE attr = "model" ->
           Got(Instance(IF st.active = "mean" THEN MEAN
                        ELSE IF Scaled(k) THEN SCALED(Family(k))
                        ELSE Family(k)))
      [] attr = "model_params" -> Got(model_params)
      [] attr = "joint_posterior" -> Got(SplitModel_joint_posterior(k, st.active))
      [] OTHER -> Raise("AttributeError", <<>>)

\* self.model.__getattribute__(attr) inside SplitModel; the constant
\* predictor that was swapped in was constructed without model_params
SplitModel_model_getattribute(k, st, attr) ==
    IF st.active = "mean" THEN Family_getattribute(MEAN, st, {}, attr)
    ELSE IF Scaled(k) THEN ScaledModel_getattribute(k, st, attr)
    ELSE Family_getattribute(Family(k), st, model_params, attr)

\* a lookup that asks the model the guard holds before the guard itself
SplitModel_getattribute_inner(k, st, attr) ==
    IF SplitModel_model_getattribute(k, st, attr).status = "ok"
    THEN SplitModel_model_getattribute(k, st, attr)
    ELSE SplitModel_super_getattribute(k, st, attr)

\* SplitModel.__getattribute__
SplitModel_getattribute(k, st, attr) ==
    IF SplitModel_super_getattribute(k, st, attr).status = "ok"
    THEN SplitModel_super_getattribute(k, st, attr)
    ELSE SplitModel_model_getattribute(k, st, attr)

\* getattr(surrogate, attr)
getattribute(k, st, attr) ==
    IF Guarded(k) THEN SplitModel_getattribute(k, st, attr)
    ELSE Family_getattribute(k, st, model_params, attr)

-----------------------------------------------------------------------------
(* The tensors of one posterior call.  A tensor is either the caller's     *)
(* candidates tensor itself ("caller": the same object, or a view of its   *)
(* memory) or a tensor made during the call ("new").                       *)

\* the element types of the candidates a caller passes
DTypes == {"float32", "float64"}

_DTYPE == "float64"

\* the candidates as the caller holds them
Held(dtype, c) == [dtype |-> dtype, shape |-> c.shape, data |-> c.data]

\* x.to(_DTYPE) in _prepare_inputs: x itself when it has the type already,
\* a converted copy otherwise
Prepared(dtype) == IF dtype = _DTYPE THEN "caller" ELSE "new"

\* the covariance (or the variances) self._posterior returns: the answer of
\* the library, of torch.ones, of untransform, or stack/reshape of these;
\* none of them is made of the memory of the candidates `cand`
RawCovarBuffer(k, st, cand) == "new"

\* covar in SurrogateModel.posterior before the floor is added:
\* torch.diag_embed makes a new tensor of the variances of a marginal model
FacadeCovarBuffer(k, st, covar) ==
    IF ~joint_posterior(k, st.active) THEN "new" ELSE covar

\* a floor that is added in place to the prepared candidates
AddTarget_candidates(cand, covar) == cand

\* the tensor the in-place addition covar.add_(...) writes to
AddTarget(cand, covar) == covar

\* the caller's candidates after posterior(candidates) has returned or
\* raised `out`
candidates_after(k, st, dtype, c, out) ==
    LET cand == Prepared(dtype)
        covar == FacadeCovarBuffer(k, st, RawCovarBuffer(k, st, cand))
    IN IF out.status = "ok" /\ AddTarget(cand, covar) = "caller"
       THEN Held(dtype, Tensor(c.shape, [p \in 1..Len(c.data) |->
                                           c.data[p] + MIN_VARIANCE]))
       ELSE Held(dtype, c)

-----------------------------------------------------------------------------
(* Serialization: the unstructure hook registered for SurrogateModel       *)

\* what the raw unstructure hook makes of a surrogate: a dict of its fields,
\* with or without an entry for the fitted model
RawForm(st, has_model) ==
    IF has_model
    THEN [model_params |-> model_params, model |-> st.regressor]
    ELSE [model_params |-> model_params]

\* dict_.pop(key)
pop(dict_, key) ==
    IF key \in DOMAIN dict_
    THEN Got([k \in DOMAIN dict_ \ {key} |-> dict_[k]])
    ELSE Raise("KeyError", <<>>)

\* a wrapper that lets the KeyError of pop through
remove_model_strict(dict_) == pop(dict_, "model")

\* remove_model(raw_unstructure_hook)(obj), given the dict the raw hook
\* returns: the KeyError of pop is caught
remove_model(dict_) ==
    IF pop(dict_, "model").status = "KeyError" THEN Got(dict_)
    ELSE pop(dict_, "model")

-----------------------------------------------------------------------------
(* The surrogate as a state machine                                        *)

State == [active |-> active, regressor |-> regressor,
          target_value |-> target_value, scaler |-> scaler]

\* n_estimators in model_params of a random forest
TreeCounts == {1, 2}

\* the state after construction
Init ==
    /\ instances = <<>> /\ dicts = <<>> /\ benchmark = <<>>
    /\ kind \in Kinds
    /\ n_estimators \in (IF kind = RF THEN TreeCounts ELSE {0})
    /\ active = IF Guarded(kind) THEN "wrapped" ELSE "self"
    /\ regressor = None
    /\ target_value = None
    /\ scaler = None
    /\ last = NoCall
    /\ calls = <<>>
    /\ raw = NoResult
    /\ result = NoResult
    /\ trained = None
    /\ model_params = {}
    /\ f_joint = FALSE
    /\ f_fail = 0

\* surrogate.fit(searchspace, train_x, train_y)
Fit ==
    /\ last = NoCall
    /\ \E continuous \in BOOLEAN, comp_rep \in CompReps, lib_ok \in BOOLEAN :
      \E n \in 0..MaxRows :
       \E y \in UNION {Targets(m) : m \in TargetRows(n)} :
        LET ss == [continuous |-> continuous, comp_rep |-> comp_rep]
            x == Candidates(<<n>>)
            out == fit(kind, State, ss, x, y, lib_ok)
        IN /\ active' = out.st.active
           /\ regressor' = out.st.regressor
           /\ target_value' = out.st.target_value
           /\ scaler' = out.st.scaler
           /\ last' = [op |-> "fit", x |-> x, y |-> y, ss |-> ss,
                       before |-> State]
           /\ calls' = out.calls
           /\ raw' = NoResult
           /\ result' = Raise(out.status, <<>>)
           /\ trained' = IF out.status = "ok"
                         THEN [state |-> "fitted", x |-> x, y |-> y]
                         ELSE None
           /\ UNCHANGED <<others, kind, n_estimators, model_params, f_joint, f_fail>>

\* the caller puts a key into the mapping surrogate.model_params, which
\* the wrappers share with the model they hold
PutParam ==
    /\ last = NoCall
    /\ UnknownKey \notin model_params
    /\ model_params' = model_params \cup {UnknownKey}
    /\ UNCHANGED <<others, kind, n_estimators, active, regressor, target_value,
                   scaler, last, calls, raw, result, trained, f_joint, f_fail>>

\* a posterior that gives up the wrapped model when its evaluation raises
Posterior_fallback ==
    /\ last = NoCall
    /\ \E shape \in SurrogateShapes, lib \in LibAnswers, dtype \in DTypes :
      \E inner \in {_posterior(kind, State, Candidates(shape), lib)} :
        \E out \in {posterior(kind, State, Candidates(shape), inner)} :
           /\ last' = [op |-> "posterior", candidates |-> Candidates(shape),
                       lib |-> lib, dtype |-> dtype,
                       after |-> candidates_after(kind, State, dtype,
                                                  Candidates(shape), out)]
           /\ calls' = out.calls
           /\ raw' = IF _prepare_inputs(Candidates(shape)) = "ok"
                     THEN [inner EXCEPT !.calls = <<>>] ELSE NoResult
           /\ result' = [out EXCEPT !.calls = <<>>]
           /\ active' = IF Guarded(kind) /\ out.status # "ok"
                        THEN "mean" ELSE active
           /\ UNCHANGED <<others, kind, n_estimators, regressor, target_value,
                          scaler, trained, model_params, f_joint, f_fail>>

\* surrogate.posterior(candidates)
Posterior ==
    /\ last = NoCall
    /\ \E shape \in SurrogateShapes, lib \in LibAnswers, dtype \in DTypes :
      \E inner \in {_posterior(kind, State, Candidates(shape), lib)} :
        \E out \in {posterior(kind, State, Candidates(shape), inner)} :
           /\ last' = [op |-> "posterior", candidates |-> Candidates(shape),
                       lib |-> lib, dtype |-> dtype,
                       after |-> candidates_after(kind, State, dtype,
                                                  Candidates(shape), out)]
           /\ calls' = out.calls
           /\ raw' = IF _prepare_inputs(Candidates(shape)) = "ok"
                     THEN [inner EXCEPT !.calls = <<>>] ELSE NoResult
           /\ result' = [out EXCEPT !.calls = <<>>]
           /\ UNCHANGED <<others, kind, n_estimators, active, regressor, target_value,
                          scaler, trained, model_params, f_joint, f_fail>>

\* getattr(surrogate, attr)
GetAttr ==
    /\ last = NoCall
    /\ \E attr \in Attrs :
         /\ last' = [op |-> "getattr", attr |-> attr]
         /\ result' = getattribute(kind, State, attr)
    /\ UNCHANGED <<others, kind, n_estimators, active, regressor, target_value,
                   scaler, calls, raw, trained, model_params, f_joint, f_fail>>

\* cattrs.unstructure(surrogate)
Unstructure ==
    /\ last = NoCall
    /\ \E has_model \in BOOLEAN :
         /\ last' = [op |-> "unstructure", raw |-> RawForm(State, has_model)]
         /\ result' = remove_model(RawForm(State, has_model))
    /\ UNCHANGED <<others, kind, n_estimators, active, regressor, target_value,
                   scaler, calls, raw, trained, model_params, f_joint, f_fail>>

Next == Fit \/ Posterior \/ PutParam \/ GetAttr \/ Unstructure \/ Continue

Spec == Init /\ [][Next]_vars

-----------------------------------------------------------------------------
(* Two surrogates side by side (specification SpecTwo).  model_params of   *)
(* an instance is a reference to a dict object; `dicts` maps every dict    *)
(* object to its keys.                                                     *)

Names == {"A", "B"}

Absent == [kind |-> "none", params |-> 0, st |-> None]

\* the dict that the field model_params of SurrogateModel defaults to: one
\* object, made when the class body runs
DEFAULT == 0

\* the dict object made for the instance
Own(i) == IF i = "A" THEN 1 ELSE 2

DictIds == {DEFAULT, Own("A"), Own("B")}

\* the key a caller passes at construction and puts into a mapping later
PutKey == "verbose"

\* the dict a new instance of class k refers to.  The families with a
\* converter (dict) get a new dict; the constant predictor has the field
\* of the base class: the dict the caller passes or, without one, the
\* default object itself.
NewParams(k, i, explicit) ==
    IF Family(k) = MEAN /\ ~explicit THEN DEFAULT ELSE Own(i)

NewState(k) ==
    [active |-> IF Guarded(k) THEN "wrapped" ELSE "self",
     regressor |-> None, target_value |-> None, scaler |-> None]

InitTwo ==
    /\ kind = "two instances"
    /\ n_estimators = 1
    /\ active = "self"
    /\ regressor = None
    /\ target_value = None
    /\ scaler = None
    /\ trained = None
    /\ model_params = {}
    /\ last = NoCall
    /\ calls = <<>>
    /\ raw = NoResult
    /\ result = NoResult
    /\ f_joint = FALSE
    /\ f_fail = 0
    /\ instances = [i \in Names |-> Absent]
    /\ dicts = [d \in DictIds |-> {}]
    /\ benchmark = <<>>

Frame2 == <<kind, n_estimators, active, regressor, target_value, scaler,
            trained, model_params, calls, raw, f_joint, f_fail, benchmark>>

\* i = cls() or i = cls(model_params={"verbose": ...})
Construct2 ==
    \E i \in Names, k \in Kinds, explicit \in BOOLEAN :
      \E out \in {construct(Family(k), IF explicit THEN <<PutKey>> ELSE <<>>)} :
        /\ instances[i].kind = "none"
        /\ last' = [op |-> "construct", instance |-> i]
        /\ result' = out
        /\ instances' =
             IF out.status = "ok"
             THEN [instances EXCEPT ![i] =
                      [kind |-> k, params |-> NewParams(k, i, explicit),
                       st |-> NewState(k)]]
             ELSE instances
        /\ dicts' =
             IF out.status = "ok" /\ explicit
             THEN [dicts EXCEPT ![Own(i)] = {PutKey}]
             ELSE dicts
        /\ UNCHANGED Frame2

\* i.fit(searchspace, train_x, train_y) on a training set of two rows
\* the instances that were constructed
Present == {i \in Names : instances[i].kind # "none"}

Fit2 ==
    \E i \in Present, y \in {[cols |-> 1, data |-> <<0, 2>>],
                           [cols |-> 1, data |-> <<2, 2>>]} :
      \E out \in {fit(instances[i].kind, instances[i].st,
                      [continuous |-> FALSE, comp_rep |-> 1],
                      Candidates(<<2>>), y, TRUE)} :
        /\ last' = [op |-> "fit", instance |-> i]
        /\ result' = Raise(out.status, <<>>)
        /\ instances' = [instances EXCEPT ![i].st = out.st]
        /\ UNCHANGED <<Frame2, dicts>>

\* i.model_params["verbose"] = ...
PutParam2 ==
    \E i \in Present :
        /\ PutKey \notin dicts[instances[i].params]
        /\ last' = [op |-> "put", instance |-> i]
        /\ result' = NoResult
        /\ dicts' = [dicts EXCEPT ![instances[i].params] = @ \cup {PutKey}]
        /\ UNCHANGED <<Frame2, instances>>

\* i.posterior(candidates) on one candidate point
Posterior2 ==
    \E i \in Present, lib \in LibAnswers :
      \E inner \in {_posterior(instances[i].kind, instances[i].st,
                               Candidates(<<1>>), lib)} :
        \E out \in {posterior(instances[i].kind, instances[i].st,
                              Candidates(<<1>>), inner)} :
        /\ last' = [op |-> "posterior", instance |-> i]
        /\ result' = [out EXCEPT !.calls = <<>>]
        /\ UNCHANGED <<Frame2, instances, dicts>>

NextTwo == Construct2 \/ Fit2 \/ PutParam2 \/ Posterior2

SpecTwo == InitTwo /\ [][NextTwo]_vars

-----------------------------------------------------------------------------
(* The kernel priors of the Gaussian process (specification SpecPriors).   *)
(* A prior is <<concentration, rate, initial value>> in units of 0.01.     *)

\* the largest number of features of a training set
MaxD == 101

PriorConfig(name, lengthscale, outputscale, noise) ==
    [name |-> name, lengthscale_prior |-> lengthscale,
     outputscale_prior |-> outputscale, noise_prior |-> noise]

LowD == PriorConfig("low D", <<120, 110, 20>>, <<500, 50, 800>>, <<105, 50, 10>>)

DFT == PriorConfig("DFT", <<200, 20, 500>>, <<500, 50, 800>>, <<150, 10, 500>>)

Mordred == PriorConfig("Mordred", <<200, 10, 1000>>, <<200, 10, 1000>>, <<150, 10, 500>>)

OHE == PriorConfig("OHE", <<300, 100, 200>>, <<500, 20, 2000>>, <<150, 10, 500>>)

\* a selection that keeps the descriptor flag whatever the number of
\* features
priors_unreset(D, contains_mordred, contains_rdkit) ==
    LET mordred == contains_mordred \/ contains_rdkit
    IN IF D < 5 THEN LowD
       ELSE IF mordred /\ D < 100 THEN DFT
       ELSE IF mordred THEN Mordred
       ELSE OHE

\* the prior selection of GaussianProcessModel._fit, D = train_x.shape[-1]
priors(D, contains_mordred, contains_rdkit) ==
    LET flag == contains_mordred \/ contains_rdkit
        mordred == IF flag /\ D < 50 THEN FALSE ELSE flag
    IN IF D < 5 THEN LowD
       ELSE IF mordred /\ D < 100 THEN DFT
       ELSE IF mordred THEN Mordred
       ELSE OHE

\* a training set of D features on a search space with or without
\* descriptor features
InitPriors ==
    /\ kind = GP
    /\ n_estimators = 0
    /\ active = "self"
    /\ regressor = None
    /\ target_value = None
    /\ scaler = None
    /\ trained = None
    /\ model_params = {}
    /\ last \in {[op |-> "none", D |-> d, contains_mordred |-> m,
                  contains_rdkit |-> r] :
                    d \in 1..MaxD, m \in BOOLEAN, r \in BOOLEAN}
    /\ calls = <<>>
    /\ raw = NoResult
    /\ result = NoResult
    /\ f_joint = FALSE
    /\ f_fail = 0
    /\ instances = <<>> /\ dicts = <<>> /\ benchmark = <<>>

\* the prior selection inside fit
SelectPriors ==
    /\ last.op = "none"
    /\ last' = [last EXCEPT !.op = "priors"]
    /\ result' = Got(priors(last.D, last.contains_mordred, last.contains_rdkit))
    /\ UNCHANGED <<others, kind, n_estimators, active, regressor, target_value,
                   scaler, calls, raw, trained, model_params, f_joint, f_fail>>

\* the caller goes on with another training set
NextTrainingSet ==
    /\ last.op = "priors"
    /\ \E d \in 1..MaxD, m \in BOOLEAN, r \in BOOLEAN :
         last' = [op |-> "none", D |-> d, contains_mordred |-> m,
                  contains_rdkit |-> r]
    /\ result' = NoResult
    /\ UNCHANGED <<others, kind, n_estimators, active, regressor, target_value,
                   scaler, calls, raw, trained, model_params, f_joint, f_fail>>

NextPriors == SelectPriors \/ NextTrainingSet

SpecPriors == InitPriors /\ [][NextPriors]_vars

-----------------------------------------------------------------------------
(* SingleExecutionBenchmark                                                *)

\* the largest number of invocations of the benchmark function
MaxRuns == 3

\* the largest number of metrics of a benchmark
MaxMetrics == 1

\* the data frames the benchmark function can return
Frames == {0, 1}

\* what one invocation of benchmark_function does: it raises, or it returns
\* a data frame and the metadata
Outcomes ==
    {[raises |-> TRUE]} \cup {[raises |-> FALSE, frame |-> fr] : fr \in Frames}

\* SingleResult(title, identifier, metadata, result, time_delta) of the
\* run-th invocation
SingleResult(run, frame) == [run |-> run, benchmark_result |-> frame]

\* the methods of a SingleResult
SingleResultMethods == {"get_execution_time_ns"}

\* the outcome of a method: the benchmark it leaves and what the caller gets
Returned(b, value) == [b |-> b, status |-> "ok", value |-> value]

Raised(b, status, text) == [b |-> b, status |-> status, text |-> text]

\* SingleExecutionBenchmark(title, benchmark_function, metrics=...)
SingleExecutionBenchmark(metrics) ==
    [metrics |-> metrics, _benchmark_result |-> None, _metadata |-> 0,
     invocations |-> 0, direct |-> FALSE]

\* SingleExecutionBenchmark.execute_benchmark
execute_benchmark(b, outcome) ==
    LET invoked == [b EXCEPT !.invocations = @ + 1]
    IN IF outcome.raises
       THEN Raised(invoked, "Exception", "identifier")
       ELSE LET made == SingleResult(invoked.invocations, outcome.frame)
                stored == [invoked EXCEPT !._metadata = made.run,
                                          !._benchmark_result = made]
            IN IF b.metrics > 0
                  /\ "evaluate_result" \notin SingleResultMethods
               THEN Raised(stored, "AttributeError", "evaluate_result")
               ELSE Returned(stored, made)

\* SingleExecutionBenchmark.get_result
get_result(b, outcome) ==
    IF b._benchmark_result = None
    THEN LET e == execute_benchmark(b, outcome)
         IN IF e.status = "ok"
            THEN Returned([e.b EXCEPT !._benchmark_result = e.value], e.value)
            ELSE e
    ELSE Returned(b, b._benchmark_result)

InitBench ==
    /\ kind = "benchmark"
    /\ n_estimators = 0
    /\ active = "self"
    /\ regressor = None
    /\ target_value = None
    /\ scaler = None
    /\ trained = None
    /\ model_params = {}
    /\ last = NoCall
    /\ calls = <<>>
    /\ raw = NoResult
    /\ result = NoResult
    /\ f_joint = FALSE
    /\ f_fail = 0
    /\ instances = <<>> /\ dicts = <<>>
    /\ benchmark \in {SingleExecutionBenchmark(m) : m \in 0..MaxMetrics}

FrameBench == <<kind, n_estimators, active, regressor, target_value, scaler,
                trained, model_params, calls, raw, f_joint, f_fail,
                instances, dicts>>

\* the benchmark function is invoked by the call at most once
Invokable == benchmark.invocations < MaxRuns

\* benchmark.get_result()
GetResult ==
    /\ benchmark._benchmark_result = None => Invokable
    /\ \E outcome \in Outcomes :
         \E out \in {get_result(benchmark, outcome)} :
           /\ benchmark' = out.b
           /\ result' = [out EXCEPT !.b = 0]
           /\ last' = [op |-> "get_result", outcome |-> outcome,
                       before |-> benchmark]
    /\ UNCHANGED FrameBench

\* benchmark.execute_benchmark(), called directly
ExecuteBenchmark ==
    /\ Invokable
    /\ \E outcome \in Outcomes :
         \E out \in {execute_benchmark(benchmark, outcome)} :
           /\ benchmark' = [out.b EXCEPT !.direct = TRUE]
           /\ result' = [out EXCEPT !.b = 0]
           /\ last' = [op |-> "execute_benchmark", outcome |-> outcome,
                       before |-> benchmark]
    /\ UNCHANGED FrameBench

NextBench == GetResult \/ ExecuteBenchmark

SpecBench == InitBench /\ [][NextBench]_vars

-----------------------------------------------------------------------------
(* Properties of the batch sequentializer (specification SpecBatch)        *)

Evaluated == last.op = "sequential_posterior"

\* f raises on one of the points of the candidate tensor
FRaises == f_fail \in 1..Numel(last.candidates)

TIdx == Indices(t_shape(last.candidates))

\* the 2-D batch of the points at t-batch multi-index t
SliceAt(t) ==
    LET q == q_shape(last.candidates)
    IN Tensor(<<q>>, [i \in 1..q |-> At(last.candidates, t \o <<i>>)])

\* the row-major rank (from 1) of t-batch multi-index t
Rank(t) == Offset(t_shape(last.candidates), t)

\* what C7 says of one call on a joint model's batched candidates
JointPerSlice ==
    LET c == last.candidates
        q == q_shape(c)
    IN /\ result.status = "ok"
       /\ result.mean.shape = t_shape(c) \o <<q>>
       /\ result.covar.shape = t_shape(c) \o <<q, q>>
       /\ Len(calls) = Cardinality(TIdx)
       /\ \A t \in TIdx :
            /\ calls[Rank(t)] = Call("f", SliceAt(t))
            /\ \A i \in 1..q :
                 At(result.mean, t \o <<i>>) = 10 * At(c, t \o <<i>>)
            /\ \A i, j \in 1..q :
                 At(result.covar, t \o <<i, j>>)
                     = 100 * At(c, t \o <<i>>) + At(c, t \o <<j>>)

\* C7 as stated: for a joint model and ANY candidate tensor with at least
\* one leading batch dimension, f runs once per t-batch element on that
\* element's slice, in order, and the result at multi-index t is f's result
\* on slice t, with shapes T+[Q] and T+[Q,Q].
C7_AnyBatchedTensor ==
    (Evaluated /\ f_joint /\ ndim(last.candidates) > 2 /\ ~FRaises)
        => JointPerSlice

\* C7 amended: the same, for candidate tensors whose t-batch dimensions are
\* all non-zero (with an empty t-batch the unpacking of the collected
\* results raises ValueError and nothing is returned).
C7_NonEmptyBatch ==
    (/\ Evaluated /\ f_joint /\ ndim(last.candidates) > 2 /\ ~FRaises
     /\ Prod(t_shape(last.candidates)) > 0)
        => JointPerSlice

C7_Witness ==
    /\ Evaluated /\ f_joint /\ result.status = "ok"
    /\ t_shape(last.candidates) = <<2, 2>>
    /\ q_shape(last.candidates) = 2
    /\ Len(calls) = 4

\* C8: for a marginal model and batched candidates f runs exactly once, on
\* the flattened tensor of all points, and mean and variance have shape
\* T+[Q] with entry (t, q) the entry t*Q+q of f's output; for 2-D candidates
\* f runs exactly once on the candidates themselves.
C8_MarginalOnce ==
    (Evaluated /\ ~f_joint /\ ~FRaises) =>
        LET c == last.candidates
            q == q_shape(c)
            n == Numel(c)
        IN /\ result.status = "ok"
           /\ calls = <<Call("f", IF ndim(c) = 2 THEN c
                                   ELSE Tensor(<<n>>, [p \in 1..n |-> p]))>>
           /\ result.mean.shape = c.shape
           /\ result.covar.shape = c.shape
           /\ \A t \in TIdx : \A i \in 1..q :
                /\ At(result.mean, t \o <<i>>) = 10 * ((Rank(t) - 1) * q + i)
                /\ At(result.covar, t \o <<i>>) = (Rank(t) - 1) * q + i

C8_Witness ==
    /\ Evaluated /\ ~f_joint /\ result.status = "ok"
    /\ t_shape(last.candidates) = <<1, 2>>
    /\ q_shape(last.candidates) = 2
    /\ Len(calls) = 1

\* the rank of the first t-batch element that holds the point f_fail
FailRank == ((f_fail - 1) \div q_shape(last.candidates)) + 1

\* C9: when f raises on a batch element, the call raises that error,
\* returns no mean and no covariance, and f has run on the elements up to
\* the failing one and on no later element.
C9_ErrorPropagates ==
    (Evaluated /\ FRaises) =>
        /\ result.status = "RuntimeError"
        /\ result.mean = NoTensor
        /\ result.covar = NoTensor
        /\ IF f_joint /\ ndim(last.candidates) > 2
           THEN /\ Len(calls) = FailRank
                /\ \A t \in TIdx :
                     Rank(t) <= FailRank => calls[Rank(t)] = Call("f", SliceAt(t))
           ELSE Len(calls) = 1

C9_Witness ==
    /\ Evaluated /\ FRaises /\ f_joint
    /\ t_shape(last.candidates) = <<2, 2>>
    /\ result.status = "RuntimeError"
    /\ Len(calls) = 2

-----------------------------------------------------------------------------
(* Properties of the surrogates (specification Spec)                       *)

Called(op) == last.op = op

\* the last call was posterior and it returned
Answered == Called("posterior") /\ result.status = "ok"

AllEqual(y) == \A i, j \in 1..Len(y) : y[i] = y[j]

BatchIdx == Indices(t_shape(last.candidates))

QIdx == 1..q_shape(last.candidates)

\* C1: after a fit that returned, posterior on the n training points
\* returns a mean of length n and an n x n covariance whose diagonal
\* entries are all strictly positive and at least 1e-6, for every family.
C1_PosteriorOnTrainingSet ==
    (/\ kind \in Families /\ Called("posterior") /\ trained # None
     /\ TLen(trained.x) = Len(trained.y.data)
     /\ last.candidates.shape = <<Len(trained.y.data)>>)
        => /\ result.status = "ok"
           /\ result.mean.shape = <<Len(trained.y.data)>>
           /\ result.covar.shape = <<Len(trained.y.data), Len(trained.y.data)>>
           /\ \A i \in QIdx :
                /\ FGt(At(result.covar, <<i, i>>), 0)
                /\ FGe(At(result.covar, <<i, i>>), MIN_VARIANCE)

\* C2: for the guarded families, after a fit that returned, the constant
\* predictor is active if and only if the targets of that fit have a
\* standard deviation below 1e-6; otherwise the wrapped family was fitted
\* on that fit's data.
C2_ActiveFollowsLastFit ==
    (kind \in {RF, NGB, BL} /\ Called("fit") /\ result.status = "ok")
        => /\ active = "mean" <=> StdBelowMin(last.y.data)
           /\ ~StdBelowMin(last.y.data) =>
                /\ regressor.state = "fitted"
                /\ regressor.y = ScaledTargets(scaler, last.y).data

\* the mean is c at every point; the variance, the floor of the facade
\* taken off, is 1.0 at every point
ConstantPrediction(c) ==
    /\ result.status = "ok"
    /\ \A p \in 1..Len(result.mean.data) : result.mean.data[p] = c * MeanScale
    /\ \A t \in BatchIdx : \A i \in QIdx :
         At(result.covar, t \o <<i, i>>) = ONE + MIN_VARIANCE

\* the last fit returned and its targets all have one value; posterior ran
\* on a candidate tensor with points
AfterConstantFit ==
    /\ Called("posterior") /\ trained # None
    /\ Len(trained.y.data) > 0 /\ AllEqual(trained.y.data)
    /\ Numel(last.candidates) > 0

\* C3 as stated: for every family, the Gaussian process included, fit on
\* targets all equal to c followed by posterior returns mean c and
\* variance 1.0 at every candidate point.
C3_ConstantTargetsAnyFamily ==
    (kind \in Families /\ AfterConstantFit)
        => ConstantPrediction(trained.y.data[1])

\* C3 amended: the same for the constant predictor and the guarded
\* families; the variance 1.0 is the raw one, the covariance returned by
\* posterior has 1.0 + 1e-6 on the diagonal.
C3_ConstantTargetsGuarded ==
    (kind \in {MEAN, RF, NGB, BL} /\ AfterConstantFit)
        => /\ ConstantPrediction(trained.y.data[1])
           /\ \A p \in 1..Len(raw.covar.data) : raw.covar.data[p] = ONE

C3_Witness ==
    /\ kind = NGB /\ AfterConstantFit /\ result.status = "ok"
    /\ trained.y.data = <<2, 2>>
    /\ last.candidates.shape = <<2, 2>>

\* C4: the reported joint_posterior flag is the family's (true for the
\* Gaussian process only) in every state, whatever wrappers there are and
\* whatever was fitted; a guard around a joint family whose fallback is
\* active still reports true, and its raw posterior is the diagonal
\* covariance T+[Q,Q] of the fallback's variances.
C4_JointFlagFixed ==
    /\ joint_posterior(kind, active) = (Family(kind) = GP)
    /\ (kind = GUARDED_GP /\ active = "mean" /\ Answered) =>
         /\ raw.covar.shape = last.candidates.shape \o <<q_shape(last.candidates)>>
         /\ \A t \in BatchIdx : \A i, j \in QIdx :
              At(raw.covar, t \o <<i, j>>) = IF i = j THEN ONE ELSE 0

C4_Witness ==
    /\ kind = GUARDED_GP /\ active = "mean" /\ Answered
    /\ last.candidates.shape = <<2, 2>>
    /\ joint_posterior(kind, active)

\* C5: for every marginal-only family, wrapped or not, fallback active or
\* not, the covariance posterior returns is the full T+[Q,Q] matrix with
\* zero off the diagonal and the variance of point i at entry (i, i).
C5_MarginalCovarianceDiagonal ==
    (kind \in {MEAN, RF, NGB, BL} /\ Answered) =>
        /\ raw.covar.shape = last.candidates.shape
        /\ result.covar.shape
              = last.candidates.shape \o <<q_shape(last.candidates)>>
        /\ \A t \in BatchIdx : \A i, j \in QIdx :
             IF i = j
             THEN At(result.covar, t \o <<i, i>>)
                      = FAdd(At(raw.covar, t \o <<i>>), MIN_VARIANCE)
             ELSE At(result.covar, t \o <<i, j>>) = 0

C5_Witness ==
    /\ kind = BL /\ active = "wrapped" /\ Answered
    /\ last.candidates.shape = <<2, 2>>
    /\ At(raw.covar, <<1, 1>>) > 0

\* the covariance of points i and j of t-batch t that self._posterior gave
RawCovar(t, i, j) ==
    IF Family(kind) = GP THEN At(raw.covar, t \o <<i, j>>)
    ELSE IF i = j THEN At(raw.covar, t \o <<i>>)
    ELSE 0

\* C6: one call of posterior adds 1e-6 exactly once to every diagonal
\* entry of every batch element and changes no other entry, for every
\* family and every chain of wrappers.
C6_FloorAddedOnce ==
    Answered =>
        \A t \in BatchIdx : \A i, j \in QIdx :
            At(result.covar, t \o <<i, j>>)
                = IF i = j THEN FAdd(RawCovar(t, i, i), MIN_VARIANCE)
                  ELSE RawCovar(t, i, j)

C6_Witness ==
    /\ kind = GP /\ Answered
    /\ last.candidates.shape = <<2, 2>>
    /\ At(raw.covar, <<2, 1, 1>>) = 1
    /\ At(result.covar, <<2, 1, 1>>) = 1 + MIN_VARIANCE

\* C10: fit with a feature matrix of zero rows, and posterior on candidates
\* without any point (zero rows, or Q = 0 or a zero t-batch dimension in a
\* batched tensor), always raise ValueError and return nothing.  (The fit
\* is taken on a search space without continuous part, and the posterior on
\* a surrogate whose last fit returned: no other check is in the way.)
C10_EmptyInputRejected ==
    /\ (Called("fit") /\ TLen(last.x) = 0 /\ ~last.ss.continuous)
          => result.status = "ValueError"
    /\ (Called("posterior") /\ Numel(last.candidates) = 0 /\ trained # None)
          => result.status = "ValueError"

-----------------------------------------------------------------------------
(* Properties of fit: validation and configuration                         *)

\* the raw fits of the families
RawFits == {fam \o "._fit" : fam \in Families}

\* the raw fits the last call ran, in order
RawFitCalls == SelectSeq(calls, LAMBDA c : c.fn \in RawFits)

\* the last call fitted a scaler
ScalerFitted ==
    \E i \in 1..Len(calls) : calls[i].fn = "DefaultScaler.fit_transform"

\* C11: fit with a non-empty X and a target tensor without rows, or with a
\* row count other than X's, raises a validation error before any raw _fit
\* runs; every training set that reaches a raw _fit has at least one row
\* and as many target rows as feature rows.
C11_RowMismatchRejected ==
    Called("fit") =>
        /\ (TLen(last.x) > 0 /\ Len(last.y.data) # TLen(last.x))
              => /\ result.status \in {"ValueError", "NotImplementedError"}
                 /\ RawFitCalls = <<>>
        /\ \A i \in 1..Len(RawFitCalls) :
              /\ TLen(RawFitCalls[i].arg.x) >= 1
              /\ TLen(RawFitCalls[i].arg.x) = Len(RawFitCalls[i].arg.y)

\* C12: fit with a non-empty X and a target matrix that is not exactly one
\* column wide raises NotImplementedError, for every family, and neither a
\* raw _fit nor the fitting of a scaler runs.
C12_TargetColumnsRejected ==
    (Called("fit") /\ TLen(last.x) > 0 /\ last.y.cols # 1)
        => /\ result.status = "NotImplementedError"
           /\ calls = <<>>

C12_Witness ==
    /\ kind = NGB /\ Called("fit") /\ ~last.ss.continuous
    /\ TLen(last.x) = 2 /\ last.y.cols = 2
    /\ result.status = "NotImplementedError"

\* C13: on a search space with a continuous part, fit on the Gaussian
\* process passes the configuration check and (with valid training data)
\* reaches the raw fit, while fit on every other family, wrapped or not,
\* raises NotImplementedError and runs nothing; on a search space without a
\* continuous part no fit with valid training data raises it.
C13_ContinuousOnlyGP ==
    Called("fit") =>
        /\ (kind = GP /\ last.ss.continuous
               /\ TLen(last.x) > 0 /\ last.y.cols = 1)
              => /\ Len(RawFitCalls) = 1
                 /\ RawFitCalls[1].fn = GP \o "._fit"
        /\ (kind \in {MEAN, RF, NGB, BL} /\ last.ss.continuous)
              => /\ result.status = "NotImplementedError"
                 /\ calls = <<>>
        /\ (~last.ss.continuous /\ TLen(last.x) > 0 /\ last.y.cols = 1)
              => result.status # "NotImplementedError"

C13_Witness ==
    /\ kind = RF /\ active = "wrapped" /\ Called("fit") /\ last.ss.continuous
    /\ TLen(last.x) = 2 /\ last.y.data = <<0, 2>> /\ last.y.cols = 1
    /\ result.status = "NotImplementedError"
    /\ trained = None

\* a configuration a fit cannot support: a search space with a continuous
\* part and a family other than the Gaussian process, or a key in
\* model_params that no constructor takes (for the Gaussian process: any)
Unsupported ==
    \/ Family(kind) # GP /\ last.ss.continuous
    \/ UnknownKey \in model_params

\* C16: when fit is called on an unsupported configuration (a key put into
\* model_params after the construction included), the call raises the
\* configuration error and neither the fitting of a scaler nor a raw _fit
\* has run.
C16_ConfigurationBeforeNumericWork ==
    (Called("fit") /\ Unsupported)
        => /\ result.status \in {"NotImplementedError", "ValueError"}
           /\ ~ScalerFitted
           /\ RawFitCalls = <<>>

-----------------------------------------------------------------------------
(* Properties of the construction (specification SpecParams)               *)

\* the keys of a sequence
KeySet(keys) == {keys[i] : i \in 1..Len(keys)}

\* C14: for the random forest, NGBoost and the Bayesian linear model,
\* construction with model_params raises ValueError if and only if some key
\* is not a name of the parameter list of the library constructor, and the
\* message names every such key and no key the constructor knows.
C14_UnknownKeysRejected ==
    (Called("construct") /\ kind \in {RF, NGB, BL}) =>
        /\ result.status = "ValueError"
              <=> KeySet(last.model_params) \ co_varnames(kind) # {}
        /\ result.status \in {"ok", "ValueError"}
        /\ result.status = "ValueError" =>
              /\ result.message.model = kind
              /\ KeySet(result.message.keys)
                    = KeySet(last.model_params) \ co_varnames(kind)

C14_Witness ==
    /\ kind = BL /\ Called("construct")
    /\ last.model_params = <<"typo", "n_estimators">>
    /\ result.status = "ValueError"
    /\ result.message.keys = <<"typo", "n_estimators">>

\* C15: the Gaussian process accepts no model_params: construction with
\* any non-empty mapping, keys of the library constructor included, raises
\* ValueError, and construction with the empty mapping returns.
C15_ProcessTakesNoParams ==
    (Called("construct") /\ kind = GP) =>
        IF last.model_params = <<>> THEN result.status = "ok"
        ELSE result.status = "ValueError"

C15_Witness ==
    /\ kind = GP /\ Called("construct")
    /\ last.model_params = <<"covar_module">>
    /\ result.status = "ValueError"

-----------------------------------------------------------------------------
(* Properties of the scaling adapter                                       *)

\* the surrogate is a scaled family whose adapter is in use: the guard has
\* not swapped in the constant predictor
AdapterActive == Scaled(kind) /\ active = "wrapped"

\* C17: with the scaling adapter in use, a fit that reaches the adapter
\* fits the scaler on (X, Y) and then the wrapped model, once, on the
\* transformed training set; a posterior that returns has run transform on
\* the candidates, the wrapped model's raw posterior on the transformed
\* candidates and untransform on its answer, once each and in that order,
\* and returns what untransform makes of the wrapped model's answer at the
\* transformed candidates.  The wrapped model is therefore what the family
\* alone fitted on the scaled training set would be.
C17_ScalingRoundTrip ==
    AdapterActive =>
        /\ (Called("fit") /\ ScalerFitted) =>
              LET x == scaler_transform(scaler, last.x)
                  y == ScaledTargets(scaler, last.y)
              IN /\ Len(calls) = 2
                 /\ calls[1] = Call("DefaultScaler.fit_transform",
                                    [comp_rep |-> last.ss.comp_rep,
                                     x |-> last.x, y |-> last.y.data])
                 /\ calls[2] = Call(kind \o "._fit", [x |-> x, y |-> y.data])
                 /\ result.status = "ok" =>
                       regressor = Family_fit(kind, State, x, y, TRUE).st.regressor
        /\ Answered =>
              LET c == scaler_transform(scaler, last.candidates)
                  m == Family_posterior(kind, State, c, last.lib)
                  u == scaler_untransform(scaler, m.mean, m.covar)
              IN /\ Len(calls) = 3
                 /\ calls[1] = Call("DefaultScaler.transform", last.candidates)
                 /\ calls[2].fn = kind \o "._posterior"
                 /\ calls[2].arg.data = c.data
                 /\ calls[3] = Call("DefaultScaler.untransform",
                                    [mean |-> m.mean, covar |-> m.covar])
                 /\ raw.mean = u.mean
                 /\ raw.covar = u.covar

C17_Witness ==
    /\ kind = NGB /\ AdapterActive /\ Answered
    /\ trained # None /\ trained.y.data = <<0, 2>>
    /\ regressor.x = scaler_transform(scaler, trained.x)
    /\ scaler.comp_rep = 2
    /\ Numel(last.candidates) = 2
    /\ Len(calls) = 3

\* C18: on a scaled family, a fit that reaches the adapter leaves the scaler
\* it has created, built from the computational representation of that
\* fit's search space and fitted on that fit's training set, whatever the
\* scaler was before; a fit that is rejected before it reaches the adapter
\* and every posterior call, whatever the candidates, leave the scaler as it
\* was.
C18_ScalerFromLastFit ==
    [][Scaled(kind) =>
          /\ (Called("fit") /\ ScalerFitted)' =>
                scaler' = DefaultScaler(last'.ss.comp_rep, last'.y.data)
          /\ (Called("fit") /\ ~ScalerFitted)' /\ active' = active =>
                scaler' = scaler
          /\ Called("posterior")' => scaler' = scaler]_vars

C18_Witness ==
    /\ kind = BL /\ AdapterActive /\ Answered
    /\ trained # None /\ trained.y.data = <<0, 2>>
    /\ scaler = DefaultScaler(1, <<0, 2>>)
    /\ Numel(last.candidates) > 2

-----------------------------------------------------------------------------
(* Properties of the attribute access                                      *)

NotFound == result.status = "AttributeError"

\* C19: read on a guard, an attribute the guard defines (model,
\* model_params, joint_posterior) has the guard's value; an attribute the
\* guard does not define has the value of the model the guard holds at that
\* moment: target_value is the constant predictor's once it was swapped in,
\* scaler is the adapter's (defined on the adapter, one level down) while
\* the adapter is held; an attribute that neither the guard nor the model
\* it holds defines raises AttributeError.
C19_ReadThroughDelegation ==
    (Called("getattr") /\ Guarded(kind)) =>
        /\ last.attr = "model" =>
              result = Got(Instance(IF active = "mean" THEN MEAN
                                    ELSE IF Scaled(kind) THEN SCALED(kind)
                                    ELSE GP))
        /\ last.attr = "model_params" => result = Got(model_params)
        /\ last.attr = "joint_posterior" => result = Got(kind = GUARDED_GP)
        /\ last.attr = "target_value" =>
              IF active = "mean" THEN result = Got(target_value) ELSE NotFound
        /\ last.attr = "scaler" =>
              IF AdapterActive THEN result = Got(scaler) ELSE NotFound
        /\ last.attr = "undefined" => NotFound

C19_Witness ==
    /\ kind = RF /\ active = "mean" /\ Called("getattr")
    /\ last.attr = "target_value"
    /\ trained # None /\ trained.y.data = <<2, 2>>
    /\ result = Got([state |-> "fitted", value |-> 2 * MeanScale])

-----------------------------------------------------------------------------
(* Properties of posterior: the caller's candidates                        *)

-----------------------------------------------------------------------------
(* Properties of the serialization                                         *)

\* C21: the unstructured form of a surrogate, fitted or not, has no entry
\* "model" and keeps every other entry of the raw form; a surrogate whose
\* raw form has no entry "model" is unstructured to its raw form, without
\* an error.
C21_ModelNotSerialized ==
    Called("unstructure") =>
        /\ result.status = "ok"
        /\ "model" \notin DOMAIN result.value
        /\ DOMAIN result.value = DOMAIN last.raw \ {"model"}
        /\ \A k \in DOMAIN result.value : result.value[k] = last.raw[k]
        /\ "model" \notin DOMAIN last.raw => result.value = last.raw

C21_Witness ==
    /\ kind = GP /\ Called("unstructure") /\ trained # None
    /\ "model" \in DOMAIN last.raw /\ last.raw.model.state = "fitted"
    /\ result = Got([model_params |-> {}])

-----------------------------------------------------------------------------
(* Properties of two surrogates (specification SpecTwo)                    *)

\* what a caller can observe of instance i
Observed(i) ==
    [model_params |-> dicts[instances[i].params],
     active |-> instances[i].st.active,
     scaler |-> instances[i].st.scaler,
     regressor |-> instances[i].st.regressor,
     target_value |-> instances[i].st.target_value,
     name |-> Family(instances[i].kind),
     joint_posterior |-> joint_posterior(instances[i].kind,
                                         instances[i].st.active)]

\* C22: a construction, fit, posterior or model_params update on one
\* instance leaves what can be observed of the other instance as it was,
\* two instances constructed with default parameters included.
C22_NoSharedState ==
    [][\A i \in Names :
          (instances[i].kind # "none" /\ last'.instance # i)
              => Observed(i)' = Observed(i)]_vars

-----------------------------------------------------------------------------
(* Properties of the guard against constant targets                        *)

\* the fit just made passed the checks of the facade on targets whose
\* standard deviation is below the threshold
DegenerateFit ==
    /\ Called("fit")
    /\ FitChecks("other", last.ss, last.x, last.y) = "ok"
    /\ StdBelowMin(last.y.data)

\* C23: on a random forest, NGBoost or Bayesian linear surrogate, a fit
\* with targets of a standard deviation below the threshold returns without
\* an error and leaves the constant predictor as the active model; the
\* joint_posterior flag, the model_params mapping and the class name the
\* guard reports are after the fit what they were before it.
C23_SilentSubstitution ==
    [][(Scaled(kind) /\ DegenerateFit') =>
          /\ result'.status = "ok"
          /\ active' = "mean"
          /\ target_value'.state = "fitted"
          /\ joint_posterior(kind, active') = joint_posterior(kind, active)
          /\ getattribute(kind, State, "joint_posterior")'
                = getattribute(kind, State, "joint_posterior")
          /\ getattribute(kind, State, "model_params")'
                = getattribute(kind, State, "model_params")
          /\ ClassName(kind, active') = ClassName(kind, active)]_vars

C23_Witness ==
    /\ kind = NGB /\ DegenerateFit /\ last.y.data = <<1, 1>>
    /\ result.status = "ok" /\ active = "mean"
    /\ target_value.value = 1 * MeanScale
    /\ scaler = None /\ regressor = None

-----------------------------------------------------------------------------
(* Properties of the kernel priors (specification SpecPriors)              *)

\* the search space has descriptor features
Descriptors == last.contains_mordred \/ last.contains_rdkit

\* C24: for every number of features D >= 1 and either value of the
\* descriptor flag exactly one of the four prior regimes is selected: the
\* low-dimensional one for D < 5 whatever the flag; DFT for the flag set and
\* 50 <= D < 100; Mordred for the flag set and D >= 100; OHE in every other
\* case (flag unset and D >= 5, or flag set and 5 <= D < 50).
C24_PriorRegime ==
    Called("priors") =>
        /\ result.status = "ok"
        /\ result.value \in {LowD, DFT, Mordred, OHE}
        /\ last.D < 5 => result.value = LowD
        /\ (Descriptors /\ 50 <= last.D /\ last.D < 100) => result.value = DFT
        /\ (Descriptors /\ last.D >= 100) => result.value = Mordred
        /\ (~Descriptors /\ last.D >= 5) => result.value = OHE
        /\ (Descriptors /\ 5 <= last.D /\ last.D < 50) => result.value = OHE

C24_Witness ==
    /\ Called("priors") /\ last.D = 49
    /\ last.contains_rdkit /\ ~last.contains_mordred
    /\ result.value.name = "OHE"

-----------------------------------------------------------------------------
(* Properties of fit and posterior: the state they leave                   *)

\* the checks of SurrogateModel.fit rejected the last call
Rejected ==
    /\ Called("fit")
    /\ FitChecks(type(kind, active), last.ss, last.x, last.y) # "ok"

\* C25: a fit that the checks of the facade reject (empty X, a target
\* matrix not one column wide, a continuous search space for a family
\* other than the Gaussian process) raises and leaves the active model, the
\* scaler, the regressor, the target value and model_params as they were,
\* which is all that a later posterior reads.
C25_RejectedFitKeepsState ==
    [][(Called("fit")'
          /\ FitChecks(type(kind, active), last'.ss, last'.x, last'.y) # "ok")
         => /\ result'.status \in {"ValueError", "NotImplementedError"}
            /\ State' = State
            /\ model_params' = model_params]_vars

C25_Witness ==
    /\ kind = RF /\ Rejected /\ TLen(last.x) = 0
    /\ result.status = "ValueError"
    /\ active = "wrapped" /\ regressor.state = "fitted"
    /\ scaler = DefaultScaler(2, <<0, 2>>)

\* the last call was a fit of a scaled family whose adapter held a fitted
\* model; the fit reached the adapter and raised
RefitRaised ==
    /\ Called("fit") /\ AdapterActive /\ ScalerFitted
    /\ last.before.regressor # None
    /\ last.before.regressor.state = "fitted"
    /\ result.status # "ok"

\* the scaler of the fit that raised has replaced the one before it, the
\* wrapped model's raw fit ran once and its error is what fit raised
NewScalerOneAttempt ==
    /\ scaler = DefaultScaler(last.ss.comp_rep, last.y.data)
    /\ Len(RawFitCalls) = 1
    /\ result.status \in {"TypeError", "ValueError", "RuntimeError"}

C27_PosteriorReadOnly ==
    [][Called("posterior")' =>
          /\ State' = State
          /\ model_params' = model_params
          /\ n_estimators' = n_estimators]_vars

C27_Witness ==
    /\ kind = BL /\ active = "wrapped" /\ Called("posterior")
    /\ result.status = "NotFittedError"
    /\ regressor.state = "constructed" /\ scaler # None

\* C28: of several violated preconditions of fit the first in the order
\* continuous search space on a family other than the Gaussian process,
\* X without rows, target matrix not one column wide is the one reported:
\* NotImplementedError for the first whatever the data, ValueError for an
\* empty X whatever the columns of Y, NotImplementedError for the columns
\* of Y only when X has rows; no model is fitted in any of the three cases.
C28_CheckOrder ==
    Called("fit") =>
        LET unsupported == last.ss.continuous
                              /\ type(kind, last.before.active) # "GP"
            empty == TLen(last.x) = 0
            columns == last.y.cols # 1
        IN /\ unsupported =>
                 result.status = "NotImplementedError" /\ calls = <<>>
           /\ (~unsupported /\ empty) =>
                 result.status = "ValueError" /\ calls = <<>>
           /\ (~unsupported /\ ~empty /\ columns) =>
                 result.status = "NotImplementedError" /\ calls = <<>>

C28_Witness ==
    /\ kind = GP /\ Called("fit") /\ last.ss.continuous
    /\ TLen(last.x) = 0 /\ last.y.cols = 2
    /\ result.status = "ValueError"

\* the fit just called passed the checks of the facade on the surrogate
Selecting ==
    /\ Guarded(kind) /\ Called("fit")
    /\ FitChecks(type(kind, last.before.active),
                 last.ss, last.x, last.y) = "ok"

\* C29: on a guarded family a training set of one row always leaves the
\* constant predictor active, whatever the target; the constant predictor
\* is active after a fit exactly when the population standard deviation of
\* its targets is strictly below 1e-6, so that targets whose standard
\* deviation equals 1e-6 are fitted by the wrapped family.
C29_FallbackThreshold ==
    Selecting =>
        /\ Len(last.y.data) = 1 => active = "mean"
        /\ active = "mean" <=> StdBelowMin(last.y.data)

\* the same for a surrogate whose wrapped family was still in place
C29_FirstSwap ==
    (Selecting /\ last.before.active = "wrapped") =>
        /\ Len(last.y.data) = 1 => active = "mean"
        /\ active = "mean" <=> StdBelowMin(last.y.data)

\* C30: while execute_benchmark has not been called directly, a get_result
\* on a benchmark that holds a result returns that result without invoking
\* the benchmark function; on a benchmark that holds none it invokes the
\* function once and, when the function returns, stores the result and
\* returns it, and, when the function raises, raises the error naming the
\* identifier and stores nothing, so that the next get_result executes
\* again.  The function therefore returns once at most.
C30_GetResultOnce ==
    (Called("get_result") /\ ~benchmark.direct) =>
        LET b == last.before
        IN IF b._benchmark_result # None
           THEN /\ benchmark.invocations = b.invocations
                /\ result.status = "ok"
                /\ result.value = b._benchmark_result
                /\ benchmark._benchmark_result = b._benchmark_result
           ELSE /\ benchmark.invocations = b.invocations + 1
                /\ IF last.outcome.raises
                   THEN /\ result.status = "Exception"
                        /\ result.text = "identifier"
                        /\ benchmark._benchmark_result = None
                   ELSE /\ result.status = "ok"
                        /\ result.value = benchmark._benchmark_result
                        /\ result.value.run = benchmark.invocations

\* the same for a benchmark without metrics
C30_WithoutMetrics ==
    benchmark.metrics = 0 => C30_GetResultOnce

====
